---------------------------- MODULE Spec2Model ----------------------------
(***************************************************************************)
(* Model of the webhook relay: the FastAPI frontend (src/main.py), its     *)
(* request validation (src/functions.py) and the Celery task with its      *)
(* completion poll loop (src/celery_worker.py).                            *)
(*                                                                         *)
(* Spec        the FastAPI processes: triggerResponse, moveConvoForward,   *)
(*             the per-contact queues and asyncio locks, the drain task,   *)
(*             the shared Redis store and the passing of time.             *)
(*                                                                         *)
(* Within one process the asyncio event loop runs one coroutine at a time  *)
(* and switches only at an await that really suspends. Each action below   *)
(* is one such run-to-suspension stretch of a handler; the drain task,     *)
(* whose awaits never suspend, is given in steps so that its intermediate  *)
(* states can be observed, and Busy(p) keeps every other coroutine of the  *)
(* process from running between those steps. Different processes           *)
(* interleave freely.                                                      *)
(***************************************************************************)
EXTENDS Integers, Sequences, FiniteSets, TLC

(***************************************************************************)
(* Bounds of the model.                                                    *)
(***************************************************************************)
MaxRequests == 2

Procs == {"p1", "p2"}
Keys == {"c1", "c2"}

(***************************************************************************)
(* Python values. A missing JSON field and a JSON null both read as None   *)
(* through dict.get.                                                       *)
(***************************************************************************)
NoneV == "<None>"

Falsy(v) == v \in {NoneV, ""}

Get(data, f) == IF f \in DOMAIN data THEN data[f] ELSE NoneV

Msg(n) == "m" \o ToString(n)

\* The body as the n-th request sends it: a body that carries a message text
\* carries one of its own, Msg(n); a body whose text is missing, empty or
\* "null" is sent as it is.
Sent(body, n) ==
    [body EXCEPT !["ghl_recent_message"] =
        IF Falsy(@) \/ @ = "null" THEN @ ELSE Msg(n)]

(***************************************************************************)
(* functions.validate_request_data                                         *)
(***************************************************************************)
RequiredFields == {"thread_id", "assistant_id", "ghl_contact_id", "ghl_recent_message"}

ExtractFields(data) ==
    [f \in RequiredFields \cup {"ghl_convo_id"} |-> Get(data, f)]

MissingFields(fields) ==
    {f \in RequiredFields : Falsy(fields[f]) \/ fields[f] \in {"", "null", NoneV}}

NeedsConvoLookup(fields) ==
    Falsy(fields["ghl_convo_id"]) \/ fields["ghl_convo_id"] \in {"", "null"}

\* The part of validate_request_data that runs without suspending: "reject"
\* (returns None), "lookup" (awaits get_conversation_id) or "ok" (returns fields).
ValidateStage(data) ==
    LET fields == ExtractFields(data) IN
    IF MissingFields(fields) # {} THEN "reject"
    ELSE IF NeedsConvoLookup(fields) THEN "lookup"
    ELSE "ok"

\* Once get_conversation_id has answered convo (an id or None): whether
\* validate_request_data returns None, and the fields it returns otherwise.
LookupRejects(convo) == Falsy(convo)

FieldsAfterLookup(data, convo) ==
    [ExtractFields(data) EXCEPT !["ghl_convo_id"] = convo]

(***************************************************************************)
(* The shared Redis store: contact:{id} hashes, each with the time it has  *)
(* left to live once an expiry is set. Time passes in steps of TICK.       *)
(***************************************************************************)
DEBOUNCE_TTL == 30
TICK == 15

RedisKey(contact_id) == "contact:" \o contact_id

\* HSET key mapping: the fields of mapping are written over the hash's; the
\* reply is the number of fields that were new.
HSetHash(old, mapping) ==
    [f \in DOMAIN old \cup DOMAIN mapping |->
        IF f \in DOMAIN mapping THEN mapping[f] ELSE old[f]]

HSetReply(old, mapping) == Cardinality(DOMAIN mapping \ DOMAIN old)

VARIABLES
    redis,               \* Redis key -> [hash, ttl, left], live keys only
    conversation_queues, \* process -> (contact id -> sequence of request data)
    processing_locks,    \* process -> (contact id -> [holder, waiters])
    handlers,            \* request id -> the suspended HTTP handler
    tasks,               \* request id -> the drain task it created
    nreq,                \* requests received so far
    responses,           \* request id -> HTTP status returned
    enqLog,              \* process -> contact id -> records put, in order
    procLog,             \* process -> contact id -> records taken for processing, in order
    crmLog,              \* records handed to update_ghl_conversation, in order
    burst,               \* contact id -> records put by /triggerResponse for updates
                         \* that all arrived since time last advanced
    broker,              \* Celery: the task messages waiting for a worker, in order
    ctasks,              \* Celery: task id -> the task's request data and state
    job                  \* one call of wait_for_run_completion

webVars == <<burst, redis, conversation_queues, processing_locks, handlers, tasks,
             nreq, responses, enqLog, procLog, crmLog>>

celeryVars == <<broker, ctasks>>

vars == <<webVars, celeryVars, job>>

(***************************************************************************)
(* Inputs: the JSON bodies the endpoints are sent: the valid body of each   *)
(* contact, and the bodies that differ from a valid one in one respect.    *)
(***************************************************************************)
ValidBody(k) ==
    [thread_id |-> "t1", assistant_id |-> "a1", ghl_contact_id |-> k,
     ghl_recent_message |-> "m", ghl_convo_id |-> "cv1", messages |-> <<>>]

ValidBodies == {ValidBody(k) : k \in Keys}

\* Sent to /triggerResponse, all for one contact: the valid body, one without
\* conversation id (looked up), two with messages (a thread is created), with
\* and without a thread of their own, one whose assistant is "null", and
\* three whose message text is empty, "null" or null.
TriggerBodies ==
    {ValidBody("c1"),
     [ValidBody("c1") EXCEPT !["ghl_convo_id"] = NoneV],
     [ValidBody("c1") EXCEPT !["thread_id"] = NoneV, !["messages"] = <<"hello">>],
     [ValidBody("c1") EXCEPT !["messages"] = <<"hello">>],
     [ValidBody("c1") EXCEPT !["assistant_id"] = "null"],
     [ValidBody("c1") EXCEPT !["ghl_recent_message"] = ""],
     [ValidBody("c1") EXCEPT !["ghl_recent_message"] = "null"],
     [ValidBody("c1") EXCEPT !["ghl_recent_message"] = NoneV]}

\* Sent to /moveConvoForward: bodies whose thread or assistant is missing,
\* empty or "null", and one without contact id.
MoveBodies ==
    ValidBodies
    \cup {[ValidBody("c1") EXCEPT !["thread_id"] = NoneV],
          [ValidBody("c1") EXCEPT !["thread_id"] = "null"],
          [ValidBody("c1") EXCEPT !["assistant_id"] = ""],
          [ValidBody("c1") EXCEPT !["ghl_contact_id"] = NoneV]}

\* Python objects the code handles: a dict, None, or the coroutine object that
\* calling an async def without await returns.
PyDict(fields) == [type |-> "dict", value |-> fields]
PyNone == [type |-> "None"]
PyCoroutine == [type |-> "coroutine"]

\* bool(obj): None and the empty dict are false, any other object is true.
Truthy(obj) ==
    CASE obj.type = "None" -> FALSE
      [] obj.type = "dict" -> DOMAIN obj.value # {}
      [] OTHER -> TRUE

\* What create_thread returns: None (a status other than 200, or an
\* exception), or the JSON object of the 200 answer, which may hold an id, an
\* empty id, or no id at all.
ThreadReplies ==
    {PyNone, PyDict([id |-> "t_new"]), PyDict([id |-> ""]),
     PyDict([id |-> NoneV]), PyDict([object |-> "thread"])}
ConvoReplies == {"cv_found", NoneV}

(***************************************************************************)
(* Helpers on the state.                                                   *)
(***************************************************************************)
Drop(f, x) == [y \in DOMAIN f \ {x} |-> f[y]]

EmptyHash == [f \in {} |-> NoneV]

FreeLock == [locked |-> FALSE, holder |-> 0, waiters |-> <<>>]

\* A get-or-create that makes a new queue on every call.
get_conversation_queue_Fresh(queues, contact_id) ==
    [k \in DOMAIN queues \cup {contact_id} |->
        IF k = contact_id THEN <<>> ELSE queues[k]]

\* main.get_conversation_queue: the map of queues after the get-or-create.
get_conversation_queue(queues, contact_id) ==
    IF contact_id \in DOMAIN queues THEN queues ELSE queues @@ (contact_id :> <<>>)

\* main.get_processing_lock: the map of locks after the get-or-create.
get_processing_lock(locks, contact_id) ==
    IF contact_id \in DOMAIN locks THEN locks ELSE locks @@ (contact_id :> FreeLock)

\* asyncio.Queue.put on an unbounded queue: append at the tail.
QueuePut(q, item) == Append(q, item)

\* A queue that hands out its newest item (asyncio.LifoQueue's order).
QueueGetItem_Newest(q) == q[Len(q)]

\* asyncio.Queue.get on a non-empty queue: the head.
QueueGetItem(q) == Head(q)

\* A get that leaves the queue empty: the records behind the head are lost.
QueueGetRest_Clear(q) == <<>>

\* asyncio.Queue.get on a non-empty queue: what stays in the queue.
QueueGetRest(q) == Tail(q)

\* A lock that stays held when the async with block is left.
ReleaseLock_StaysHeld(lock) == lock

\* The end of "async with lock": asyncio.Lock.release.
ReleaseLock(lock) == [lock EXCEPT !.locked = FALSE, !.holder = 0]

\* A coroutine of process p is in the middle of a stretch that does not suspend.
Busy(p) ==
    \E t \in DOMAIN tasks :
        tasks[t].proc = p /\ tasks[t].pc \in {"loop", "process", "update"}

Respond(h, status) ==
    /\ responses' = responses @@ (h :> status)
    /\ handlers' = Drop(handlers, h)

Suspend(h, p, pc, data, fresh) ==
    /\ handlers' = [y \in DOMAIN handlers \cup {h} |->
                      IF y = h THEN [proc |-> p, pc |-> pc, data |-> data,
                                     fresh |-> fresh, reply |-> 0]
                      ELSE handlers[y]]
    /\ UNCHANGED responses

\* queue.put(item) and asyncio.create_task(process_conversation_queue(contact_id))
EnqueueAndSchedule(h, p, contact_id, item, endpoint) ==
    /\ conversation_queues' =
         [conversation_queues EXCEPT ![p] =
            LET qs == get_conversation_queue(@, contact_id)
            IN [qs EXCEPT ![contact_id] = QueuePut(@, item)]]
    /\ enqLog' = [enqLog EXCEPT ![p][contact_id] =
                    Append(@, [h |-> h, item |-> item, endpoint |-> endpoint])]
    /\ tasks' = tasks @@ (h :> [proc |-> p, key |-> contact_id, pc |-> "ready",
                                cur |-> NoneV, response |-> NoneV])

\* A handler that awaits the drain it started before it answers.
Acknowledge_AwaitsDrain(h) ==
    /\ handlers' = [handlers EXCEPT ![h].pc = "await_drain"]
    /\ UNCHANGED responses

\* The acknowledgment of an accepted request: the handler returns its 200
\* right after create_task, without awaiting the task.
Acknowledge(h) == Respond(h, 200)

(***************************************************************************)
(* POST /triggerResponse                                                   *)
(***************************************************************************)
\* validate_request_data up to its first suspension, and what follows it.
EnterValidation(h, p, data, fresh) ==
    LET stage == ValidateStage(data) IN
    IF stage = "reject" THEN
        /\ responses' = responses @@ (h :> 400)
        /\ handlers' = Drop(handlers, h)
    ELSE IF stage = "lookup" THEN Suspend(h, p, "get_convo", data, fresh)
    ELSE Suspend(h, p, "hset", ExtractFields(data), fresh)

TriggerReceive(p, body) ==
    /\ nreq < MaxRequests
    /\ ~Busy(p)
    /\ LET h == nreq + 1
           data == body
       IN /\ nreq' = h
          /\ IF data["messages"] # <<>>
             THEN Suspend(h, p, "create_thread", data, TRUE)
             ELSE EnterValidation(h, p, data, TRUE)
    /\ UNCHANGED <<burst, redis, conversation_queues, processing_locks, tasks,
                   enqLog, procLog, crmLog>>
    /\ UNCHANGED <<celeryVars, job>>

\* Lines 87-89: if thread_response: request_data["thread_id"] =
\* thread_response["id"]. A response without "id" raises KeyError, which the
\* handler's except answers with the 500.
TriggerThreadCreated(h, thread_response) ==
    /\ h \in DOMAIN handlers
    /\ handlers[h].pc = "create_thread"
    /\ ~Busy(handlers[h].proc)
    /\ IF ~Truthy(thread_response)
       THEN EnterValidation(h, handlers[h].proc, handlers[h].data, handlers[h].fresh)
       ELSE IF "id" \notin DOMAIN thread_response.value
       THEN Respond(h, 500)
       ELSE EnterValidation(h, handlers[h].proc,
                [handlers[h].data EXCEPT !["thread_id"] = thread_response.value["id"]],
                handlers[h].fresh)
    /\ UNCHANGED <<burst, redis, conversation_queues, processing_locks, tasks,
                   nreq, enqLog, procLog, crmLog>>
    /\ UNCHANGED <<celeryVars, job>>

TriggerConvoResolved(h, convo) ==
    /\ h \in DOMAIN handlers
    /\ handlers[h].pc = "get_convo"
    /\ ~Busy(handlers[h].proc)
    /\ IF LookupRejects(convo)
       THEN Respond(h, 400)
       ELSE Suspend(h, handlers[h].proc, "hset",
                    FieldsAfterLookup(handlers[h].data, convo), handlers[h].fresh)
    /\ UNCHANGED <<burst, redis, conversation_queues, processing_locks, tasks,
                   nreq, enqLog, procLog, crmLog>>
    /\ UNCHANGED <<celeryVars, job>>

\* A handler that answers a failure of the store as it answers invalid data.
StoreFailure_AsRejection(h) == Respond(h, 400)

\* An exception of the store's client leaves the try block for the except of
\* lines 130-132: the response is the 500.
StoreFailure(h) == Respond(h, 500)

\* await redis.hset(redis_key, mapping=validated_fields); ok = FALSE is the store
\* failing, which the handler's except turns into a 500.
TriggerHSet(h, ok) ==
    /\ h \in DOMAIN handlers
    /\ handlers[h].pc = "hset"
    /\ ~Busy(handlers[h].proc)
    /\ LET fields == handlers[h].data
           key == RedisKey(fields["ghl_contact_id"])
           old == IF key \in DOMAIN redis THEN redis[key]
                  ELSE [hash |-> EmptyHash, ttl |-> FALSE, left |-> 0]
       IN IF ok
          THEN /\ redis' = [y \in DOMAIN redis \cup {key} |->
                              IF y = key
                              THEN [old EXCEPT !.hash = HSetHash(old.hash, fields)]
                              ELSE redis[y]]
               /\ handlers' = [handlers EXCEPT ![h].pc = "expire",
                                               ![h].reply = HSetReply(old.hash, fields)]
               /\ UNCHANGED responses
          ELSE /\ StoreFailure(h)
               /\ UNCHANGED redis
    /\ UNCHANGED <<burst, conversation_queues, processing_locks, tasks,
                   nreq, enqLog, procLog, crmLog>>
    /\ UNCHANGED <<celeryVars, job>>

\* await redis.expire(redis_key, 30), then lines 102-128 with no suspension:
\* the put on the contact's queue, create_task and the 200 response.
TriggerExpire(h, ok) ==
    /\ h \in DOMAIN handlers
    /\ handlers[h].pc = "expire"
    /\ ~Busy(handlers[h].proc)
    /\ LET fields == handlers[h].data
           contact_id == fields["ghl_contact_id"]
           key == RedisKey(contact_id)
       IN IF ok
          THEN /\ redis' = IF key \in DOMAIN redis
                           THEN [redis EXCEPT ![key].ttl = TRUE,
                                              ![key].left = DEBOUNCE_TTL]
                           ELSE redis
               /\ EnqueueAndSchedule(h, handlers[h].proc, contact_id, fields,
                                     "triggerResponse")
               /\ burst' = IF handlers[h].fresh
                           THEN [burst EXCEPT ![contact_id] = @ + 1]
                           ELSE burst
               /\ Acknowledge(h)
          ELSE /\ StoreFailure(h)
               /\ UNCHANGED <<redis, conversation_queues, enqLog, tasks, burst>>
    /\ UNCHANGED <<processing_locks, nreq, procLog, crmLog>>
    /\ UNCHANGED <<celeryVars, job>>

(***************************************************************************)
(* POST /moveConvoForward                                                  *)
(***************************************************************************)
MoveReceive(p, body) ==
    /\ nreq < MaxRequests
    /\ ~Busy(p)
    /\ LET h == nreq + 1
           request_data == body
           contact_id == Get(request_data, "ghl_contact_id")
       IN /\ nreq' = h
          /\ IF Falsy(contact_id)
             THEN /\ responses' = responses @@ (h :> 400)
                  /\ UNCHANGED <<conversation_queues, enqLog, tasks>>
             ELSE /\ EnqueueAndSchedule(h, p, contact_id, request_data,
                                        "moveConvoForward")
                  /\ responses' = responses @@ (h :> 200)
    /\ UNCHANGED <<burst, redis, processing_locks, handlers, procLog, crmLog>>
    /\ UNCHANGED <<celeryVars, job>>

(***************************************************************************)
(* main.process_assistant_conversation and main.update_ghl_conversation    *)
(***************************************************************************)
process_assistant_conversation(request_data) ==
    LET thread_id == Get(request_data, "thread_id")
        assistant_id == Get(request_data, "assistant_id")
    IN IF Falsy(thread_id) \/ Falsy(assistant_id)
       THEN [error |-> "Missing thread_id or assistant_id"]
       ELSE [message |-> "Processed by assistant", thread_id |-> thread_id]

\* A drain that hands every response to the CRM update.
ResponseOk_Always(response) == TRUE

\* if response and not response.get("error")
ResponseOk(response) ==
    /\ DOMAIN response # {}
    /\ Falsy(Get(response, "error"))

\* Whether update_ghl_conversation gets past its own checks to the update.
update_ghl_conversation(request_data, response) ==
    /\ ~Falsy(Get(response, "message"))
    /\ ~Falsy(Get(request_data, "ghl_contact_id"))
    /\ ~Falsy(Get(request_data, "ghl_convo_id"))

(***************************************************************************)
(* main.process_conversation_queue: the drain task of one contact          *)
(***************************************************************************)
\* The task's first stretch: both get-or-creates and the lock's acquire. An
\* asyncio.Lock that is free and has no waiters is taken without suspending.
DrainStart(t) ==
    /\ t \in DOMAIN tasks
    /\ tasks[t].pc \in {"ready", "wait_lock"}
    /\ ~Busy(tasks[t].proc)
    /\ LET p == tasks[t].proc
           k == tasks[t].key
           locks == get_processing_lock(processing_locks[p], k)
           lock == locks[k]
       IN /\ tasks[t].pc = "wait_lock" => (~lock.locked /\ Head(lock.waiters) = t)
          /\ conversation_queues' =
                [conversation_queues EXCEPT ![p] = get_conversation_queue(@, k)]
          /\ IF tasks[t].pc = "wait_lock"
             THEN /\ processing_locks' = [processing_locks EXCEPT ![p] =
                        [locks EXCEPT ![k] = [locked |-> TRUE, holder |-> t,
                                              waiters |-> Tail(lock.waiters)]]]
                  /\ tasks' = [tasks EXCEPT ![t].pc = "loop"]
             ELSE IF ~lock.locked /\ lock.waiters = <<>>
             THEN /\ processing_locks' = [processing_locks EXCEPT ![p] =
                        [locks EXCEPT ![k] = [locked |-> TRUE, holder |-> t,
                                              waiters |-> <<>>]]]
                  /\ tasks' = [tasks EXCEPT ![t].pc = "loop"]
             ELSE /\ processing_locks' = [processing_locks EXCEPT ![p] =
                        [locks EXCEPT ![k].waiters = Append(@, t)]]
                  /\ tasks' = [tasks EXCEPT ![t].pc = "wait_lock"]
    /\ UNCHANGED <<burst, redis, handlers, nreq, responses, enqLog, procLog, crmLog>>
    /\ UNCHANGED <<celeryVars, job>>

\* while not queue.empty(): request_data = await queue.get(); on an empty queue
\* the async with block ends and the lock is released.
DrainLoop(t) ==
    /\ t \in DOMAIN tasks
    /\ tasks[t].pc = "loop"
    /\ LET p == tasks[t].proc
           k == tasks[t].key
           q == conversation_queues[p][k]
       IN IF q = <<>>
          THEN /\ processing_locks' =
                    [processing_locks EXCEPT ![p][k] = ReleaseLock(@)]
               /\ tasks' = Drop(tasks, t)
               /\ UNCHANGED <<conversation_queues, procLog>>
          ELSE /\ conversation_queues' =
                    [conversation_queues EXCEPT ![p][k] = QueueGetRest(q)]
               /\ tasks' = [tasks EXCEPT ![t].pc = "process", ![t].cur = QueueGetItem(q)]
               /\ procLog' = [procLog EXCEPT ![p][k] = Append(@, QueueGetItem(q))]
               /\ UNCHANGED processing_locks
    /\ UNCHANGED <<burst, redis, handlers, nreq, responses, enqLog, crmLog>>
    /\ UNCHANGED <<celeryVars, job>>

\* response = await process_assistant_conversation(request_data)
DrainProcess(t) ==
    /\ t \in DOMAIN tasks
    /\ tasks[t].pc = "process"
    /\ tasks' = [tasks EXCEPT ![t].pc = "update",
                              ![t].response = process_assistant_conversation(tasks[t].cur)]
    /\ UNCHANGED <<burst, redis, conversation_queues, processing_locks, handlers,
                   nreq, responses, enqLog, procLog, crmLog>>
    /\ UNCHANGED <<celeryVars, job>>

\* if response and not response.get("error"): await update_ghl_conversation(...)
\* queue.task_done()
DrainUpdate(t) ==
    /\ t \in DOMAIN tasks
    /\ tasks[t].pc = "update"
    /\ crmLog' = IF ResponseOk(tasks[t].response)
                 THEN Append(crmLog,
                        [item |-> tasks[t].cur,
                         updated |-> update_ghl_conversation(tasks[t].cur, tasks[t].response)])
                 ELSE crmLog
    /\ tasks' = [tasks EXCEPT ![t].pc = "loop", ![t].cur = NoneV, ![t].response = NoneV]
    /\ UNCHANGED <<burst, redis, conversation_queues, processing_locks, handlers,
                   nreq, responses, enqLog, procLog>>
    /\ UNCHANGED <<celeryVars, job>>

(***************************************************************************)
(* Time: TICK seconds pass. Redis drops the keys whose expiry is due, and   *)
(* the updates received before are no longer the latest burst.             *)
(***************************************************************************)
Tick ==
    /\ redis' = [key \in {y \in DOMAIN redis : ~(redis[y].ttl /\ redis[y].left <= TICK)}
                   |-> IF redis[key].ttl
                       THEN [redis[key] EXCEPT !.left = @ - TICK]
                       ELSE redis[key]]
    /\ handlers' = [h \in DOMAIN handlers |-> [handlers[h] EXCEPT !.fresh = FALSE]]
    /\ burst' = [k \in Keys |-> 0]
    /\ UNCHANGED <<conversation_queues, processing_locks, tasks,
                   nreq, responses, enqLog, procLog, crmLog>>
    /\ UNCHANGED <<celeryVars, job>>

NoEntries == [x \in {} |-> NoneV]

NoJob == [pc |-> "none"]

\* The state after startup_event in each process of the set P (main.py lines
\* 42-57): empty maps of queues and locks, an empty store.
Startup(P) ==
    /\ burst = [k \in Keys |-> 0]
    /\ redis = NoEntries
    /\ conversation_queues = [p \in P |-> NoEntries]
    /\ processing_locks = [p \in P |-> NoEntries]
    /\ handlers = NoEntries
    /\ tasks = NoEntries
    /\ nreq = 0
    /\ responses = NoEntries
    /\ enqLog = [p \in P |-> [k \in Keys |-> <<>>]]
    /\ procLog = [p \in P |-> [k \in Keys |-> <<>>]]
    /\ crmLog = <<>>
    /\ broker = <<>>
    /\ ctasks = NoEntries
    /\ job = NoJob

(***************************************************************************)
(* Spec: one FastAPI process.                                              *)
(***************************************************************************)
Init == Startup({"p1"})

Next ==
    \/ \E body \in TriggerBodies : TriggerReceive("p1", Sent(body, nreq + 1))
    \/ \E h \in 1..MaxRequests, r \in ThreadReplies : TriggerThreadCreated(h, r)
    \/ \E h \in 1..MaxRequests, c \in ConvoReplies : TriggerConvoResolved(h, c)
    \/ \E h \in 1..MaxRequests, ok \in BOOLEAN : TriggerHSet(h, ok)
    \/ \E h \in 1..MaxRequests, ok \in BOOLEAN : TriggerExpire(h, ok)
    \/ \E body \in MoveBodies : MoveReceive("p1", Sent(body, nreq + 1))
    \/ \E t \in 1..MaxRequests : DrainStart(t)
    \/ \E t \in 1..MaxRequests : DrainLoop(t)
    \/ \E t \in 1..MaxRequests : DrainProcess(t)
    \/ \E t \in 1..MaxRequests : DrainUpdate(t)
    \/ Tick

Spec == Init /\ [][Next]_vars

(***************************************************************************)
(* SpecProcs: the same application run as several processes behind one     *)
(* address, sharing the Redis store. Each process has its own maps of      *)
(* queues and locks.                                                       *)
(***************************************************************************)
InitProcs == Startup(Procs)

NextProcs ==
    \/ \E p \in Procs, body \in ValidBodies : MoveReceive(p, Sent(body, nreq + 1))
    \/ \E t \in 1..MaxRequests : DrainStart(t)
    \/ \E t \in 1..MaxRequests : DrainLoop(t)
    \/ \E t \in 1..MaxRequests : DrainProcess(t)
    \/ \E t \in 1..MaxRequests : DrainUpdate(t)

SpecProcs == InitProcs /\ [][NextProcs]_vars

(***************************************************************************)
(* SpecFair: the enqueues of both endpoints and the drain tasks in one     *)
(* process, with the scheduling of the asyncio event loop: a task that is  *)
(* ready to run is run, and a stretch that has begun runs to its next      *)
(* suspension. The store answers; time is left out.                        *)
(***************************************************************************)
DrainStep(t) == DrainStart(t) \/ DrainLoop(t) \/ DrainProcess(t) \/ DrainUpdate(t)

NextFair ==
    \/ TriggerReceive("p1", Sent(ValidBody("c1"), nreq + 1))
    \/ \E h \in 1..MaxRequests, ok \in BOOLEAN : TriggerHSet(h, ok)
    \/ \E h \in 1..MaxRequests, ok \in BOOLEAN : TriggerExpire(h, ok)
    \/ \E body \in MoveBodies : MoveReceive("p1", Sent(body, nreq + 1))
    \/ \E t \in 1..MaxRequests : DrainStep(t)

SpecFair ==
    /\ Init
    /\ [][NextFair]_vars
    /\ \A t \in 1..MaxRequests : WF_vars(DrainStep(t))

(***************************************************************************)
(* celery_worker.wait_for_run_completion: the status test and one pass of  *)
(* its loop.                                                               *)
(***************************************************************************)
TASK_TIME_LIMIT == 600
POLL_INTERVAL == 1

MaxWait == 601

RunStatuses == {"queued", "in_progress", "completed", "failed", "expired", "cancelled"}

\* What openai.beta.threads.runs.retrieve may do: return a run in one of the
\* statuses, or raise.
RetrieveReplies == RunStatuses \cup {"<raises>"}

\* A status test that takes a run still in progress for a finished one.
IsFinalStatus_InProgress(status) ==
    status \in {"completed", "failed", "expired", "cancelled", "in_progress"}

\* Line 43: run.status in ['completed', 'failed', 'expired', 'cancelled']
IsFinalStatus(status) == status \in {"completed", "failed", "expired", "cancelled"}

\* One pass of wait_for_run_completion's while True: the run it returns, the
\* None it returns when retrieve raises, or another pass after time.sleep(1).
PollOnce(reply) ==
    IF reply = "<raises>" THEN [kind |-> "return", run |-> NoneV]
    ELSE IF IsFinalStatus(reply) THEN [kind |-> "return", run |-> reply]
    ELSE [kind |-> "sleep"]

(***************************************************************************)
(* The job service as one task sees it. Every execution of the task meets  *)
(* the same service: messages.create and runs.create succeed or raise,     *)
(* runs.retrieve gives its answers in turn, the last one over and over,    *)
(* and messages.list raises or returns the messages of the thread, newest  *)
(* first, each with a role and a list of content parts.                    *)
(***************************************************************************)
Script(create_message, create_run, retrieve, list) ==
    [create_message |-> create_message, create_run |-> create_run,
     retrieve |-> retrieve, list |-> list]

Listed(data) == [raises |-> FALSE, data |-> data]

UserMessage == [role |-> "user", content |-> <<"m1">>]
AssistantMessage(text) == [role |-> "assistant", content |-> <<text>>]

\* The run completes and the assistant has answered.
ScriptCompleted ==
    Script("ok", "ok", <<"in_progress", "completed">>,
           Listed(<<AssistantMessage("Hello!"), UserMessage>>))

\* The run ends in the given status without an answer of the assistant.
ScriptEnds(status) == Script("ok", "ok", <<"queued", status>>, Listed(<<UserMessage>>))

Scripts ==
    {ScriptCompleted,
     ScriptEnds("failed"), ScriptEnds("expired"), ScriptEnds("cancelled"),
     ScriptEnds("completed"),
     Script("ok", "ok", <<"in_progress", "<raises>">>, Listed(<<UserMessage>>)),
     Script("ok", "raises", <<"completed">>, Listed(<<UserMessage>>))}

\* wait_for_run_completion against the scripted answers of runs.retrieve: what
\* the loop returns, or that it never returns when the answers stay at a
\* status that is not final.
RECURSIVE PollResult(_)
PollResult(replies) ==
    LET out == PollOnce(Head(replies)) IN
    IF out.kind = "return" THEN out
    ELSE IF Len(replies) = 1 THEN [kind |-> "never"]
    ELSE PollResult(Tail(replies))

\* Line 82: if not final_run or final_run.status != 'completed': raise
RunFailed(final_run) == Falsy(final_run) \/ final_run # "completed"

\* Line 87: next((msg for msg in messages.data if msg.role == "assistant"), None)
RECURSIVE LatestAssistant(_)
LatestAssistant(data) ==
    IF data = <<>> THEN PyNone
    ELSE IF Head(data).role = "assistant" THEN PyDict(Head(data))
    ELSE LatestAssistant(Tail(data))

\* Lines 66-104, the inner try: the success it returns, the exception it
\* raises again, or no end when the poll loop never returns.
JobSubmission(validated_fields, script) ==
    IF script.create_message = "raises"
    THEN [kind |-> "raise", error |-> "messages.create failed"]
    ELSE IF script.create_run = "raises"
    THEN [kind |-> "raise", error |-> "runs.create failed"]
    ELSE LET polled == PollResult(script.retrieve) IN
    IF polled.kind = "never" THEN [kind |-> "never"]
    ELSE IF RunFailed(polled.run)
    THEN [kind |-> "raise",
          error |-> "Run failed or expired: "
                       \o (IF Falsy(polled.run) THEN "Unknown" ELSE polled.run)]
    ELSE IF script.list.raises
    THEN [kind |-> "raise", error |-> "messages.list failed"]
    ELSE LET latest_msg == LatestAssistant(script.list.data) IN
    IF ~Truthy(latest_msg)
    THEN [kind |-> "raise", error |-> "No assistant response found"]
    ELSE IF latest_msg.value.content = <<>>
    THEN [kind |-> "raise", error |-> "list index out of range"]
    ELSE [kind |-> "return", status |-> 200,
          response |-> latest_msg.value.content[1]]

(***************************************************************************)
(* SpecCelery: the Celery task process_conversation (src/celery_worker.py) *)
(* as its workers run it. A caller outside this repository submits tasks;  *)
(* each worker executes one task at a time, taken from the head of the     *)
(* broker's queue.                                                         *)
(***************************************************************************)
MaxTasks == 2

max_retries == 3
default_retry_delay == 5

CeleryWorkers == {"w1", "w2"}

CeleryBodies ==
    ValidBodies \cup {[ValidBody("c1") EXCEPT !["thread_id"] = NoneV]}

\* obj['thread_id'] raises TypeError unless obj is a dict.
Subscriptable(obj) == obj.type = "dict"

\* Line 57: validated_fields = validate_request_data(request_data). The callee
\* is an async def (functions.py line 175) and the call is not awaited, so
\* the value is a coroutine object whatever request_data holds.
CallValidate(request_data) == PyCoroutine

\* Line 112: if self.request.retries < self.max_retries
MayRetry(retries) == retries < max_retries

\* Lines 106-115: the outer except.
OnException(retries, error) ==
    IF MayRetry(retries)
    THEN [kind |-> "retry"]
    ELSE [kind |-> "return", status |-> 500, error |-> error]

\* Whether an execution comes to line 66: validated_fields is true and
\* lines 61-64 can take the fields out of it.
ReachesSubmission(request_data) ==
    LET validated_fields == CallValidate(request_data) IN
    Truthy(validated_fields) /\ Subscriptable(validated_fields)

\* One execution of the task (lines 55-115): the result it returns, the
\* retry it asks for, or no end when the poll loop never returns.
ExecuteTask(request_data, retries, script) ==
    LET validated_fields == CallValidate(request_data) IN
    IF ~Truthy(validated_fields)
    THEN [kind |-> "return", status |-> 400, error |-> "Invalid request data"]
    ELSE IF ~Subscriptable(validated_fields)
    THEN OnException(retries, "'coroutine' object is not subscriptable")
    ELSE LET out == JobSubmission(validated_fields.value, script) IN
         IF out.kind = "raise" THEN OnException(retries, out.error) ELSE out

\* process_conversation.delay(request_data), the task to meet the job
\* service of the script.
Submit(body, script) ==
    /\ Cardinality(DOMAIN ctasks) < MaxTasks
    /\ LET t == Cardinality(DOMAIN ctasks) + 1
           request_data == body
       IN /\ ctasks' = ctasks @@ (t :> [data |-> request_data, script |-> script,
                                        retries |-> 0,
                                        state |-> "queued", worker |-> NoneV,
                                        wait |-> 0, executions |-> 0,
                                        submissions |-> 0,
                                        result |-> [kind |-> "none"]])
          /\ broker' = Append(broker, t)
    /\ UNCHANGED <<webVars, job>>

\* A free worker receives the task at the head of the queue.
TaskStart(w) ==
    /\ broker # <<>>
    /\ \A t \in DOMAIN ctasks : ~(ctasks[t].state = "running" /\ ctasks[t].worker = w)
    /\ ctasks' = [ctasks EXCEPT ![Head(broker)].state = "running",
                                ![Head(broker)].worker = w,
                                ![Head(broker)].executions = @ + 1]
    /\ broker' = Tail(broker)
    /\ UNCHANGED <<webVars, job>>

\* The execution runs to its end: a returned result, or self.retry, which
\* publishes the task again with retries + 1 to run default_retry_delay later.
TaskRun(t) ==
    /\ t \in DOMAIN ctasks
    /\ ctasks[t].state = "running"
    /\ LET out == ExecuteTask(ctasks[t].data, ctasks[t].retries, ctasks[t].script)
           submitted == IF ReachesSubmission(ctasks[t].data) THEN 1 ELSE 0
       IN
       ctasks' = [ctasks EXCEPT ![t] =
          IF out.kind = "retry"
          THEN [@ EXCEPT !.state = "retry_wait", !.retries = @ + 1,
                         !.wait = default_retry_delay, !.worker = NoneV,
                         !.submissions = @ + submitted]
          ELSE IF out.kind = "return"
          THEN [@ EXCEPT !.state = "done", !.result = out, !.worker = NoneV,
                         !.submissions = @ + submitted]
          ELSE [@ EXCEPT !.state = "polling", !.submissions = @ + submitted]]
    /\ UNCHANGED <<webVars, job, broker>>

\* default_retry_delay seconds after self.retry the task is delivered again.
RetryDue(t) ==
    /\ t \in DOMAIN ctasks
    /\ ctasks[t].state = "retry_wait"
    /\ ctasks[t].wait = default_retry_delay
    /\ ctasks' = [ctasks EXCEPT ![t].state = "queued", ![t].wait = 0]
    /\ broker' = Append(broker, t)
    /\ UNCHANGED <<webVars, job>>

InitCelery ==
    /\ burst = [k \in Keys |-> 0]
    /\ redis = NoEntries
    /\ conversation_queues = NoEntries
    /\ processing_locks = NoEntries
    /\ handlers = NoEntries
    /\ tasks = NoEntries
    /\ nreq = 0
    /\ responses = NoEntries
    /\ enqLog = NoEntries
    /\ procLog = NoEntries
    /\ crmLog = <<>>
    /\ broker = <<>>
    /\ ctasks = NoEntries
    /\ job = NoJob

NextCelery ==
    \/ \E body \in CeleryBodies, script \in Scripts :
          Submit(Sent(body, Cardinality(DOMAIN ctasks) + 1), script)
    \/ \E w \in CeleryWorkers : TaskStart(w)
    \/ \E t \in 1..MaxTasks : TaskRun(t)
    \/ \E t \in 1..MaxTasks : RetryDue(t)

SpecCelery == InitCelery /\ [][NextCelery]_vars

(***************************************************************************)
(* SpecPoll: one call of wait_for_run_completion(thread_id, run_id), the   *)
(* module-level function of lines 35-48, from its entry to its return. The *)
(* job service answers each runs.retrieve with any of its replies. Time is *)
(* counted in the seconds the loop has slept. The function holds no        *)
(* deadline and no count of its passes, so the seconds slept grow without  *)
(* bound; the model stops counting at MaxWait, one sleep past the task     *)
(* ceiling, and the loop goes on from there with the count unchanged.      *)
(***************************************************************************)
\* One pass of the loop of wait_for_run_completion, the reply being what
\* runs.retrieve does in this pass.
wait_for_run_completion(reply) ==
    /\ job.pc = "polling"
    /\ LET out == PollOnce(reply) IN
       IF out.kind = "return"
       THEN job' = [job EXCEPT !.pc = "returned", !.result = out.run, !.last = reply]
       ELSE job' = [job EXCEPT !.waited = IF @ + POLL_INTERVAL > MaxWait THEN @
                                          ELSE @ + POLL_INTERVAL,
                               !.passes = "some", !.last = reply]
    /\ UNCHANGED <<webVars, celeryVars>>

\* The call has been made and no runs.retrieve has been sent yet.
InitPoll ==
    /\ burst = [k \in Keys |-> 0]
    /\ redis = NoEntries
    /\ conversation_queues = NoEntries
    /\ processing_locks = NoEntries
    /\ handlers = NoEntries
    /\ tasks = NoEntries
    /\ nreq = 0
    /\ responses = NoEntries
    /\ enqLog = NoEntries
    /\ procLog = NoEntries
    /\ crmLog = <<>>
    /\ broker = <<>>
    /\ ctasks = NoEntries
    /\ job = [pc |-> "polling", waited |-> 0, passes |-> "none",
              last |-> NoneV, result |-> NoneV]

NextPoll == \E reply \in RetrieveReplies : wait_for_run_completion(reply)

SpecPoll == InitPoll /\ [][NextPoll]_vars

(***************************************************************************)
(* SpecOutcome: what celery_worker.py gives for a run, seen from both      *)
(* sides: one call of wait_for_run_completion answered by the job service  *)
(* as in SpecPoll, and beside it one task for a valid request, submitted   *)
(* against any of the scripted services and executed by one worker through *)
(* its retries.                                                            *)
(***************************************************************************)
InitOutcome == InitPoll

NextOutcome ==
    \/ NextPoll
    \/ \E script \in Scripts : ctasks = NoEntries /\ Submit(Sent(ValidBody("c1"), 1), script)
    \/ TaskStart("w1")
    \/ TaskRun(1)
    \/ RetryDue(1)

SpecOutcome == InitOutcome /\ [][NextOutcome]_vars

(***************************************************************************)
(* Properties of the FastAPI processes.                                    *)
(***************************************************************************)
QueueOf(p, k) ==
    IF k \in DOMAIN conversation_queues[p] THEN conversation_queues[p][k] ELSE <<>>

Items(log) == [i \in DOMAIN log |-> log[i].item]

\* The drain tasks that have taken a record of contact k and not finished it.
Processing(P, k) ==
    {t \in DOMAIN tasks :
        tasks[t].proc \in P /\ tasks[t].key = k /\ tasks[t].pc \in {"process", "update"}}

\* C1 (as claimed): updates for one contact that arrive within the debounce
\* window of each other put exactly one record on the contact's queue. Here:
\* the /triggerResponse updates received for a contact since time last advanced
\* (all less than the window apart) have put at most one record.
C1_OneRecordPerBurst == \A k \in Keys : burst[k] <= 1

\* C2: in one process the records of a contact are taken for processing in the
\* order they were put (what was put is what was taken followed by what is still
\* queued), at most one of them is being processed at a time, and the task
\* processing it holds the contact's lock.
C2_FifoOneAtATimeUnderLock ==
    \A k \in Keys :
        /\ Items(enqLog["p1"][k]) = procLog["p1"][k] \o QueueOf("p1", k)
        /\ Cardinality(Processing({"p1"}, k)) <= 1
        /\ \A t \in Processing({"p1"}, k) :
              /\ k \in DOMAIN processing_locks["p1"]
              /\ processing_locks["p1"][k].locked
              /\ processing_locks["p1"][k].holder = t

\* C2 witness: the second of two records put for contact c1 is being processed,
\* after the first.
C2_Witness ==
    /\ Len(enqLog["p1"]["c1"]) = 2
    /\ Len(procLog["p1"]["c1"]) = 2
    /\ Processing({"p1"}, "c1") # {}

\* C3 (as claimed): whichever processes pick them up, two turns of one contact
\* are never being processed at the same time.
C3_OneTurnPerKeyAcrossProcesses ==
    \A k \in Keys : Cardinality(Processing(Procs, k)) <= 1

\* C6 (as claimed): a request whose thread_id or assistant_id is missing, empty
\* or "null" is rejected before it is enqueued: no record ever put on a queue
\* has such a thread_id or assistant_id.
C6_InvalidNeverEnqueued ==
    \A k \in Keys : \A i \in DOMAIN enqLog["p1"][k] :
        /\ Get(enqLog["p1"][k][i].item, "thread_id") \notin {NoneV, "", "null"}
        /\ Get(enqLog["p1"][k][i].item, "assistant_id") \notin {NoneV, "", "null"}

\* C8: the handler that put a record has returned its 200 by the time the
\* record is on the queue: in every state, each record ever put (still queued,
\* being processed or done) belongs to a request that has been acknowledged
\* and whose handler is no longer running.
C8_AckWithoutAwaitingDrain ==
    \A k \in Keys : \A i \in DOMAIN enqLog["p1"][k] :
        LET h == enqLog["p1"][k][i].h IN
        /\ h \notin DOMAIN handlers
        /\ h \in DOMAIN responses
        /\ responses[h] = 200

\* C8 witness: a /triggerResponse request has its 200 while its record is still
\* queued and the drain task created for it has not started.
C8_Witness ==
    \E i \in DOMAIN enqLog["p1"]["c1"] :
        LET e == enqLog["p1"]["c1"][i] IN
        /\ e.endpoint = "triggerResponse"
        /\ e.h \in DOMAIN responses /\ responses[e.h] = 200
        /\ e.h \in DOMAIN tasks /\ tasks[e.h].pc = "ready"
        /\ \E j \in DOMAIN QueueOf("p1", "c1") : QueueOf("p1", "c1")[j] = e.item

\* The request whose record is the i-th put on the queue of contact k.
Enqueued(h) ==
    \E k \in Keys : \E i \in DOMAIN enqLog["p1"][k] : enqLog["p1"][k][i].h = h

\* The record of request h has been taken from its queue for processing.
Dequeued(h) ==
    \E k \in Keys : \E i \in DOMAIN enqLog["p1"][k] :
        /\ enqLog["p1"][k][i].h = h
        /\ \E j \in DOMAIN procLog["p1"][k] : procLog["p1"][k][j] = enqLog["p1"][k][i].item

\* C11: every record put on a contact's queue is eventually taken from it and
\* processed, and a queue never holds a record while no drain task of its
\* contact is left.
C11_EveryRecordProcessed ==
    /\ \A h \in 1..MaxRequests : Enqueued(h) ~> Dequeued(h)
    /\ [](\A k \in Keys :
            QueueOf("p1", k) # <<>> =>
                \E t \in DOMAIN tasks : tasks[t].proc = "p1" /\ tasks[t].key = k)

\* C11 witness: two records were put on the queue of one contact, both have
\* been processed and no drain task is left.
C11_Witness ==
    /\ tasks = NoEntries
    /\ \E k \in Keys : Len(enqLog["p1"][k]) = 2 /\ Len(procLog["p1"][k]) = 2

\* The drain tasks of contact k in process p that are inside "async with lock".
InsideLock(p, k) ==
    {t \in DOMAIN tasks :
        tasks[t].proc = p /\ tasks[t].key = k /\ tasks[t].pc \in {"loop", "process", "update"}}

\* C12: a processing lock is held exactly while one drain of its contact is
\* inside "async with lock": a held lock has one running drain, its holder,
\* and a lock whose drain has ended, however it ended, is free again.
C12_LockHeldOnlyWhileDraining ==
    \A p \in DOMAIN processing_locks : \A k \in DOMAIN processing_locks[p] :
        LET lock == processing_locks[p][k] IN
        /\ lock.locked => InsideLock(p, k) = {lock.holder}
        /\ ~lock.locked => InsideLock(p, k) = {}

\* C12 witness: the first drain of a contact has ended after a record whose
\* processing reported an error, and the second drain of the contact holds
\* the lock.
C12_Witness ==
    \E k \in Keys :
        /\ 1 \notin DOMAIN tasks
        /\ Len(procLog["p1"][k]) >= 1
        /\ ~ResponseOk(process_assistant_conversation(procLog["p1"][k][1]))
        /\ k \in DOMAIN processing_locks["p1"]
        /\ processing_locks["p1"][k].locked
        /\ processing_locks["p1"][k].holder = 2

\* C13: when the store fails during /triggerResponse, at the write of the
\* entry or at the setting of its TTL, the request is answered 500 (not the
\* 400 of a rejection), no record is put on a queue and no drain task is
\* created; a request answered 500 never has a record on a queue.
C13_StoreFailureIsA500 ==
    /\ [][\A h \in 1..MaxRequests :
            (TriggerHSet(h, FALSE) \/ TriggerExpire(h, FALSE)) =>
                /\ h \in DOMAIN responses' /\ responses'[h] = 500
                /\ conversation_queues' = conversation_queues
                /\ enqLog' = enqLog
                /\ tasks' = tasks]_vars
    /\ [](\A h \in DOMAIN responses : responses[h] = 500 => ~Enqueued(h))

\* C13 witness: the write of a request's fields succeeded, the setting of the
\* TTL failed, and the request was answered 500 with nothing enqueued.
C13_Witness ==
    \E h \in DOMAIN responses :
        /\ responses[h] = 500
        /\ ~Enqueued(h)
        /\ h \notin DOMAIN tasks
        /\ RedisKey("c1") \in DOMAIN redis
        /\ redis[RedisKey("c1")].hash["ghl_recent_message"] = Msg(h)

\* The store key of the update that handler h is writing.
KeyOf(h) == RedisKey(handlers[h].data["ghl_contact_id"])

\* Handler h takes the step of its HSET, and the store answers.
HSetDone(h) ==
    /\ h \in DOMAIN handlers /\ handlers[h].pc = "hset"
    /\ h \in DOMAIN handlers' /\ handlers'[h].pc = "expire"

\* Handler h takes the step of its EXPIRE, the store answers, and the request
\* is accepted.
ExpireDone(h) ==
    /\ h \in DOMAIN handlers /\ handlers[h].pc = "expire"
    /\ h \in DOMAIN responses' /\ responses'[h] = 200

\* C14 (as claimed): the write of an update leaves the entry of its contact
\* holding exactly the fields of the update, and reports "created" (a reply
\* above 0, "Time Delay Started") exactly when no entry existed; and once the
\* update has succeeded (HSET and EXPIRE both answered) the contact has an
\* entry with the five fields of an update whose TTL is the full 30 s.
C14_UpdateLeavesFreshEntry ==
    [][\A h \in 1..MaxRequests :
          /\ HSetDone(h) =>
                /\ KeyOf(h) \in DOMAIN redis'
                /\ redis'[KeyOf(h)].hash = handlers[h].data
                /\ (handlers'[h].reply > 0) <=> (KeyOf(h) \notin DOMAIN redis)
          /\ ExpireDone(h) =>
                /\ KeyOf(h) \in DOMAIN redis'
                /\ DOMAIN redis'[KeyOf(h)].hash = DOMAIN handlers[h].data
                /\ redis'[KeyOf(h)].ttl
                /\ redis'[KeyOf(h)].left = DEBOUNCE_TTL]_vars

\* The drain tasks that have a record of their contact in progress.
InProgress == {t \in DOMAIN tasks : tasks[t].pc \in {"process", "update"}}

\* C15 (as claimed): a turn of one contact that is running never keeps a
\* drain of another contact from taking the lock of its contact and
\* processing: whenever a drain task is ready to start and the turn in
\* progress is of a different contact, the drain task can start, and it takes
\* its lock when it does.
C15_KeysIndependent ==
    \A t \in DOMAIN tasks : \A t2 \in InProgress :
        (tasks[t].pc = "ready" /\ tasks[t2].key # tasks[t].key)
        => ENABLED (DrainStart(t) /\ tasks'[t].pc = "loop")

\* C16: a contact has one queue and one lock in its process, whoever asks for
\* them and in whatever order: once created they stay in the maps, the queue
\* changes only by a put at its tail or a get at its head, so that the records
\* put are always the records taken followed by the records still queued, the
\* lock passes from held to free only by its holder's release, and no two
\* drains of a contact are inside the lock together.
C16_OneQueueOneLockPerKey ==
    /\ [](\A k \in Keys :
            /\ Items(enqLog["p1"][k]) = procLog["p1"][k] \o QueueOf("p1", k)
            /\ Cardinality(InsideLock("p1", k)) <= 1)
    /\ [][/\ \A k \in DOMAIN conversation_queues["p1"] :
               /\ k \in DOMAIN conversation_queues'["p1"]
               /\ LET q == conversation_queues["p1"][k]
                      r == conversation_queues'["p1"][k]
                  IN \/ r = q
                     \/ Len(r) = Len(q) + 1 /\ SubSeq(r, 1, Len(q)) = q
                     \/ q # <<>> /\ r = Tail(q)
          /\ \A k \in DOMAIN processing_locks["p1"] :
               /\ k \in DOMAIN processing_locks'["p1"]
               /\ LET lock == processing_locks["p1"][k] IN
                  (lock.locked /\ ~processing_locks'["p1"][k].locked) =>
                      /\ tasks[lock.holder].pc = "loop"
                      /\ lock.holder \notin DOMAIN tasks']_vars

\* C16 witness: two requests for an idle contact were enqueued before any
\* drain ran; the first drain holds the contact's lock with both records on
\* the contact's queue, and the second drain is still to ask for them.
C16_Witness ==
    \E k \in Keys :
        /\ Len(QueueOf("p1", k)) = 2
        /\ InsideLock("p1", k) = {1}
        /\ 2 \in DOMAIN tasks /\ tasks[2].key = k /\ tasks[2].pc = "ready"

\* The drain tasks of contact k in process p that exist: created and not ended.
DrainTasks(p, k) == {t \in DOMAIN tasks : tasks[t].proc = p /\ tasks[t].key = k}

\* C17 (as claimed): at any time at most one drain task exists for a contact,
\* running or waiting, however many records are enqueued for it.
C17_OneDrainTaskPerKey ==
    \A k \in Keys : Cardinality(DrainTasks("p1", k)) <= 1

\* C18 (as claimed): every entry contact:{id} of the store carries an expiry,
\* but for the moment in which the handler that wrote it is about to set it.
C18_EveryEntryHasExpiry ==
    \A key \in DOMAIN redis :
        \/ redis[key].ttl
        \/ \E h \in DOMAIN handlers : handlers[h].pc = "expire" /\ KeyOf(h) = key

\* The records that /triggerResponse has put on the queue of contact k.
TriggerRecords(k) ==
    SelectSeq(enqLog["p1"][k], LAMBDA e : e.endpoint = "triggerResponse")

\* C19 (as claimed): the updates of a contact that /triggerResponse accepts
\* are enqueued in the order in which the requests were received, and once
\* all requests have been answered, all of them accepted, the contact's entry
\* in the store holds the fields of the record enqueued last.
C19_ReceivedOrderKept ==
    \A k \in Keys :
        LET recs == TriggerRecords(k) IN
        /\ \A i, j \in DOMAIN recs : i < j => recs[i].h < recs[j].h
        /\ (/\ handlers = NoEntries
            /\ \A h \in DOMAIN responses : responses[h] = 200
            /\ recs # <<>>
            /\ RedisKey(k) \in DOMAIN redis)
           => redis[RedisKey(k)].hash = recs[Len(recs)].item

\* Drain task t finishes the record it has in hand.
RecordDone(t) ==
    /\ t \in DOMAIN tasks /\ tasks[t].pc = "update"
    /\ t \in DOMAIN tasks' /\ tasks'[t].pc = "loop"

\* C20: in the drain, the CRM update is called exactly for the records whose
\* processing returned no error; a record whose processing reported an error
\* is dropped, with no CRM update and without being put back on the queue,
\* and the drain goes on with its loop; no record is processed twice.
C20_FailedRecordDiscarded ==
    /\ [](/\ \A i \in DOMAIN crmLog :
               "error" \notin DOMAIN process_assistant_conversation(crmLog[i].item)
          /\ \A k \in Keys : \A i, j \in DOMAIN procLog["p1"][k] :
               i # j => procLog["p1"][k][i] # procLog["p1"][k][j])
    /\ [][\A t \in 1..MaxRequests :
            RecordDone(t) =>
                /\ conversation_queues' = conversation_queues
                /\ IF "error" \in DOMAIN tasks[t].response
                   THEN crmLog' = crmLog
                   ELSE /\ Len(crmLog') = Len(crmLog) + 1
                        /\ crmLog'[Len(crmLog')].item = tasks[t].cur]_vars

\* C20 witness: the first record of a contact failed in processing and the
\* second, queued behind it, was processed and handed to the CRM update,
\* which is the only CRM update made.
C20_Witness ==
    \E k \in Keys :
        /\ Len(procLog["p1"][k]) = 2
        /\ "error" \in DOMAIN process_assistant_conversation(procLog["p1"][k][1])
        /\ Len(crmLog) = 1
        /\ crmLog[1].item = procLog["p1"][k][2]
        /\ tasks = NoEntries

(***************************************************************************)
(* Properties of the Celery task.                                          *)
(***************************************************************************)
\* Whether validate_request_data accepts the required fields of the data.
RequestValid(data) == MissingFields(ExtractFields(data)) = {}

\* The status the job of a task ends in at every attempt, from the service
\* the task meets: the status of the run the poll loop returns, when both
\* creations succeed and the loop returns a run.
JobEnds(script) ==
    IF script.create_message = "ok" /\ script.create_run = "ok"
          /\ PollResult(script.retrieve).kind = "return"
    THEN PollResult(script.retrieve).run
    ELSE NoneV

\* C4 (as claimed): a turn whose job ends in failed, expired or cancelled on
\* every attempt is executed 3 times in total, each execution submitting the
\* job; it is then reported failed, after 3 executions and 3 submissions, and
\* neither a fourth execution nor a fourth submission happens.
C4_ThreeAttemptsThenFailed ==
    \A t \in DOMAIN ctasks :
        (/\ RequestValid(ctasks[t].data)
         /\ JobEnds(ctasks[t].script) \in {"failed", "expired", "cancelled"})
        => /\ ctasks[t].executions <= 3
           /\ ctasks[t].submissions <= 3
           /\ ctasks[t].state = "done" =>
                 /\ ctasks[t].executions = 3
                 /\ ctasks[t].submissions = 3
                 /\ ctasks[t].result.status = 500

\* C5 (as claimed): while a record that failed and was retried has not reached
\* its final outcome, no record submitted after it for the same contact has
\* started processing.
C5_RetryKeepsOrder ==
    \A t1, t2 \in DOMAIN ctasks :
        (/\ t1 < t2
         /\ ctasks[t1].data["ghl_contact_id"] = ctasks[t2].data["ghl_contact_id"]
         /\ ctasks[t1].retries >= 1
         /\ ctasks[t1].state # "done")
        => ctasks[t2].executions = 0

\* C7 (as claimed): a task whose request data is invalid ends with a rejection
\* on its first execution: it is never retried.
C7_InvalidNeverRetried ==
    \A t \in DOMAIN ctasks :
        ~RequestValid(ctasks[t].data) =>
            /\ ctasks[t].retries = 0
            /\ ctasks[t].state # "retry_wait"
            /\ ctasks[t].state = "done" => ctasks[t].result.status = 400

(***************************************************************************)
(* Properties of the executions of one task.                               *)
(***************************************************************************)
\* C21 (as claimed): every execution attempt of a turn, the first one and each
\* retry, comes to the submission, where it appends the user message and
\* starts a run: once an execution of a task with valid request data has
\* ended, as many submissions have been begun as executions were started.
C21_EveryAttemptSubmits ==
    \A t \in DOMAIN ctasks :
        (RequestValid(ctasks[t].data) /\ ctasks[t].state \in {"retry_wait", "queued", "done"})
        => ctasks[t].submissions = ctasks[t].executions

(***************************************************************************)
(* Properties of the completion poll loop.                                 *)
(***************************************************************************)
\* C9 (as claimed): the poll loop returns before the task ceiling: it is never
\* still polling once task_time_limit seconds have been slept.
C9_PollReturnsBeforeCeiling ==
    job.pc = "polling" => job.waited < TASK_TIME_LIMIT

\* Whether the service of the script gives the task a run that completes and
\* a message of the assistant with a text to carry.
GivesAnswer(script) ==
    /\ JobEnds(script) = "completed"
    /\ ~script.list.raises
    /\ Truthy(LatestAssistant(script.list.data))
    /\ LatestAssistant(script.list.data).value.content # <<>>

\* C10: the poll loop returns a run only in one of the statuses completed,
\* failed, expired, cancelled, never a queued or in_progress run, for which it
\* sleeps and asks again, and it returns None exactly when asking for the run
\* failed. A task ends in a success (200) only if its run ended completed and
\* a message of the assistant was listed, whose text the success carries; a
\* task whose run ends in another status, whose polling fails, whose creation
\* calls fail or whose thread lists no message of the assistant never ends in
\* a success: it is retried or ends in a failure.
C10_SuccessOnlyIfCompleted ==
    /\ job.pc = "returned" =>
          \/ (job.last = "<raises>" /\ job.result = NoneV)
          \/ (/\ job.last \in {"completed", "failed", "expired", "cancelled"}
              /\ job.result = job.last)
    /\ (job.pc = "polling" /\ job.passes = "some") =>
          (job.last \in {"queued", "in_progress"} /\ job.result = NoneV)
    /\ \A t \in DOMAIN ctasks :
          /\ (ctasks[t].state = "done" /\ ctasks[t].result.status = 200) =>
                /\ GivesAnswer(ctasks[t].script)
                /\ ctasks[t].result.response =
                      LatestAssistant(ctasks[t].script.list.data).value.content[1]
          /\ ~GivesAnswer(ctasks[t].script) =>
                /\ ctasks[t].state \in {"queued", "running", "retry_wait", "done"}
                /\ ctasks[t].state = "done" => ctasks[t].result.status \in {400, 500}

\* C10 witness: the poll loop, asked while the run was in progress, has
\* returned it completed; and a task whose run ends failed has ended, in a
\* failure.
C10_Witness ==
    /\ job.pc = "returned"
    /\ job.passes = "some"
    /\ job.waited >= POLL_INTERVAL
    /\ job.result = "completed"
    /\ \E t \in DOMAIN ctasks :
          /\ JobEnds(ctasks[t].script) = "failed"
          /\ ctasks[t].state = "done"
          /\ ctasks[t].result.status = 500

====
